---- MODULE Spec2Model ----
(***************************************************************************)
(* The chess session controller of useChessGame (src/unnamed/part_000):    *)
(* the React state of the hook, the handlers handleSquareClick, makeAiMove *)
(* and resetGame, the two effects (AI trigger, limit watchers) and the     *)
(* asynchronous provider call getAiMoveJson (src/services/geminiService).  *)
(*                                                                         *)
(* The hook's states are held twice: as the last committed render has them *)
(* (what the closures of the handlers, of makeAiMove and of the effects     *)
(* read) and as the updates queued since will make them (queued).  A timer  *)
(* or promise callback only queues updates; React renders them in a later   *)
(* task (Render) and runs the passive effects of that render in a still     *)
(* later one (RunEffects), and what an effect sets is rendered in a further *)
(* one.  A click is a discrete event: its render and its effects run before *)
(* any other task.  The await inside makeAiMove splits it in two actions:   *)
(* the part up to the provider request (AiTimerFires) and the continuation  *)
(* that runs when the promise settles (AiResolve).  The continuation keeps  *)
(* the Chess instance its closure captured, so instances outlive resets.    *)
(*                                                                         *)
(* chess.js is loaded from a CDN and is not part of the repository; the    *)
(* ChessInstance interface of src/types.ts is modelled by a small          *)
(* deterministic rules engine: a position is the list of the moves played, *)
(* each side has one piece to move and four targets, and the target        *)
(* decides what the move does (quiet, capture, mate, repetition).          *)
(***************************************************************************)
EXTENDS Integers, Sequences, FiniteSets, TLC

VARIABLES
    game,               \* useState game: which Chess instance is current
    instances,          \* the Chess instances alive (mutable objects)
    fen,                \* useState fen
    history,            \* useState history
    selectedSquare,     \* useState selectedSquare
    isAiThinking,       \* useState isAiThinking
    materialCount,      \* useState materialCount
    invalidMoveCount,   \* useState invalidMoveCount
    manualGameStatus,   \* useState manualGameStatus
    gameStatus,         \* useMemo gameStatus
    aiMode,             \* App's useState aiMode, passed as options.aiMode
    aiTimer,            \* the AI trigger effect's setTimeout is armed
    closure,            \* the render values of the makeAiMove the timer holds
    queued,             \* the hook's states with the queued updates applied
    effects,            \* the passive effects of the last commit still to run
    pending,            \* per instance: makeAiMove calls awaiting getAiMoveJson
    engine,             \* what the current Chess instance reports of its position
    lastOp              \* the handler that ran last

vars == <<game, instances, fen, history, selectedSquare, isAiThinking,
          materialCount, invalidMoveCount, manualGameStatus, gameStatus,
          aiMode, aiTimer, closure, queued, effects, pending, engine, lastOp>>

----------------------------------------------------------------------------
(* Configuration and bounds *)

\* options.maxGameMoves and options.maxInvalidMoves, configured small here
MAX_GAME_MOVES == 6
MAX_INVALID_MOVES == 2

\* how many times resetGame runs: each run makes a new Chess instance
MaxResets == 1
\* how many provider requests may be outstanding at once
MaxPending == 2

\* the Chess instances, in the order of their creation
Instances == 1..(MaxResets + 1)

----------------------------------------------------------------------------
(* The rules engine (ChessInstance) *)

NoPiece == [type |-> "none", color |-> "none"]
Piece(t, c) == [type |-> t, color |-> c]

BackRank(c) ==
    << Piece("r", c), Piece("n", c), Piece("b", c), Piece("q", c),
       Piece("k", c), Piece("b", c), Piece("n", c), Piece("r", c) >>
PawnRank(c, lost) == [f \in 1..8 |-> IF f <= lost THEN NoPiece ELSE Piece("p", c)]
EmptyRank == [f \in 1..8 |-> NoPiece]

\* The moves of the engine: each side moves one piece, and what a target does
\* depends on how far the game is (plies: the half-moves at which the move is
\* legal, counted from 1).  A move is legal when its colour is to move, its
\* ply has come and the game is not over by mate or stalemate.
MoveTable ==
    { [color |-> "w", from |-> "e2", to |-> "e4", san |-> "e4",   kind |-> "quiet",      plies |-> {1, 3, 5, 7}],
      [color |-> "w", from |-> "e2", to |-> "d3", san |-> "exd3", kind |-> "capture",    plies |-> {1}],
      [color |-> "w", from |-> "e2", to |-> "d3", san |-> "d3",   kind |-> "repetition", plies |-> {5}],
      [color |-> "w", from |-> "e2", to |-> "f3", san |-> "f3#",  kind |-> "mate",       plies |-> {3}],
      [color |-> "b", from |-> "e7", to |-> "e5", san |-> "e5",   kind |-> "quiet",      plies |-> {2, 4, 6, 8}],
      [color |-> "b", from |-> "e7", to |-> "d6", san |-> "exd6", kind |-> "capture",    plies |-> {2}],
      [color |-> "b", from |-> "e7", to |-> "d6", san |-> "d6",   kind |-> "repetition", plies |-> {4}],
      [color |-> "b", from |-> "e7", to |-> "f6", san |-> "f6#",  kind |-> "mate",       plies |-> {4, 6}] }

KindOf(san) == (CHOOSE m \in MoveTable : m.san = san).kind

NewChess == << >>

turn(pos) == IF Len(pos) % 2 = 0 THEN "w" ELSE "b"

LastKind(pos) == IF pos = << >> THEN "quiet" ELSE KindOf(pos[Len(pos)])

in_checkmate(pos) == LastKind(pos) = "mate"
in_stalemate(pos) == LastKind(pos) = "stalemate"
in_threefold_repetition(pos) == LastKind(pos) \in {"repetition", "both"}
insufficient_material(pos) == LastKind(pos) \in {"insufficient", "both"}

\* plies since the last capture
RECURSIVE half_moves(_)
half_moves(pos) ==
    IF pos = << >> \/ KindOf(pos[Len(pos)]) = "capture" THEN 0
    ELSE 1 + half_moves(SubSeq(pos, 1, Len(pos) - 1))

in_draw(pos) ==
    \/ half_moves(pos) >= 100
    \/ in_stalemate(pos)
    \/ insufficient_material(pos)
    \/ in_threefold_repetition(pos)

\* pawns a colour has lost: the captures played by the other colour
Lost(pos, c) ==
    Cardinality({ i \in 1..Len(pos) :
        /\ KindOf(pos[i]) = "capture"
        /\ (IF i % 2 = 1 THEN "w" ELSE "b") # c })

\* the 8 x 8 grid, rank 8 first, with lw white and lb black pawns taken
BoardWith(lw, lb) ==
    << BackRank("b"), PawnRank("b", lb),
       EmptyRank, EmptyRank, EmptyRank, EmptyRank,
       PawnRank("w", lw), BackRank("w") >>

\* every grid the engine can show, built once
Boards == [lw \in 0..8 |-> [lb \in 0..8 |-> BoardWith(lw, lb)]]

\* game.board()
board(pos) == Boards[Lost(pos, "w")][Lost(pos, "b")]

\* the squares the moves played went to, in their order: every move brings a
\* piece of its own from the colour's home square
Targets(pos) ==
    [ i \in 1..Len(pos) |-> (CHOOSE m \in MoveTable : m.san = pos[i]).to ]

\* game.fen(): placement (the pawns taken and where the pieces moved stand),
\* side to move, half-move clock, full-move number
Fen(pos) ==
    [ placement |-> << Lost(pos, "w"), Lost(pos, "b"), Targets(pos) >>,
      turn      |-> turn(pos),
      half      |-> half_moves(pos),
      full      |-> (Len(pos) \div 2) + 1 ]

\* game.moves(): empty when the game is over by mate or stalemate
moves(pos) ==
    IF in_checkmate(pos) \/ in_stalemate(pos) THEN {}
    ELSE { m \in MoveTable : m.color = turn(pos) /\ (Len(pos) + 1) \in m.plies }

\* game.moves({ square })
movesFrom(pos, square) == { m \in moves(pos) : m.from = square }

\* what game.move(move) matches: a legal move with that from and to
Matching(pos, move) == { m \in moves(pos) : m.from = move.from /\ m.to = move.to }

\* game.move(move): the position after it; the same position when it is refused
move(pos, mv) ==
    IF Matching(pos, mv) = {} THEN pos
    ELSE Append(pos, (CHOOSE m \in Matching(pos, mv) : TRUE).san)

----------------------------------------------------------------------------
(* Values of the hook's state *)

\* manualGameStatus = null
NoOverride ==
    [isCheckmate |-> FALSE, isStalemate |-> FALSE, isDraw |-> FALSE,
     winner |-> "null", reason |-> "null"]

\* move = null (the provider failed) or undefined (no move to draw)
NoMove == [from |-> "none", to |-> "none"]

ForfeitStatus ==
    [isCheckmate |-> FALSE, isStalemate |-> FALSE, isDraw |-> FALSE,
     winner |-> "w", reason |-> "Gemini forfeited after too many invalid moves"]

MaxMovesStatus ==
    [isCheckmate |-> FALSE, isStalemate |-> FALSE, isDraw |-> TRUE,
     winner |-> "draw", reason |-> "Max moves reached"]

InProgressStatus ==
    [isCheckmate |-> FALSE, isStalemate |-> FALSE, isDraw |-> FALSE,
     winner |-> "null", reason |-> ""]

----------------------------------------------------------------------------
(* computeMaterialCount *)

pieceValues(t) ==
    CASE t = "p" -> 1 [] t = "n" -> 3 [] t = "b" -> 3
      [] t = "r" -> 5 [] t = "q" -> 9 [] t = "k" -> 0 [] OTHER -> 0

\* the inner loop: the values of the pieces of one row, from file index f on
RECURSIVE RowMaterial(_, _)
RowMaterial(row, f) ==
    IF f > Len(row) THEN [white |-> 0, black |-> 0]
    ELSE LET rest  == RowMaterial(row, f + 1)
             piece == row[f]
         IN  IF piece = NoPiece THEN rest
             ELSE IF piece.color = "w"
                  THEN [rest EXCEPT !.white = @ + pieceValues(piece.type)]
                  ELSE [rest EXCEPT !.black = @ + pieceValues(piece.type)]

\* the outer loop: the rows from index r on
RECURSIVE MaterialFrom(_, _)
MaterialFrom(b, r) ==
    IF r > Len(b) THEN [white |-> 0, black |-> 0]
    ELSE LET rest == MaterialFrom(b, r + 1)
             row  == RowMaterial(b[r], 1)
         IN  [white |-> row.white + rest.white, black |-> row.black + rest.black]

computeMaterialCount(b) == MaterialFrom(b, 1)

\* computeMaterialCount(game.board()) for every grid of Boards, computed once
MaterialOfBoards ==
    [lw \in 0..8 |-> [lb \in 0..8 |-> computeMaterialCount(Boards[lw][lb])]]

\* computeMaterialCount(game.board()), read from MaterialOfBoards
materialOf(pos) == MaterialOfBoards[Lost(pos, "w")][Lost(pos, "b")]

----------------------------------------------------------------------------
(* gameStatus *)

\* what the memo reads from the engine
EngineView(pos) ==
    [ checkmate    |-> in_checkmate(pos),
      stalemate    |-> in_stalemate(pos),
      draw         |-> in_draw(pos),
      threefold    |-> in_threefold_repetition(pos),
      insufficient |-> insufficient_material(pos),
      turn         |-> turn(pos) ]

\* the two ifs of lines 80-81 run one after the other: the later assignment stays
DrawReason(e) ==
    IF e.insufficient THEN "Insufficient Material"
    ELSE IF e.threefold THEN "Threefold Repetition"
    ELSE "Draw"

\* the memo naming the side to move as the winner of a checkmate
gameStatusOfWinnerIsTurn(manual, e) ==
    IF manual # NoOverride THEN manual
    ELSE IF e.checkmate THEN
        [isCheckmate |-> TRUE, isStalemate |-> FALSE, isDraw |-> FALSE,
         winner |-> e.turn, reason |-> "Checkmate"]
    ELSE IF e.stalemate THEN
        [isCheckmate |-> FALSE, isStalemate |-> TRUE, isDraw |-> TRUE,
         winner |-> "draw", reason |-> "Stalemate"]
    ELSE IF e.draw THEN
        [isCheckmate |-> FALSE, isStalemate |-> FALSE, isDraw |-> TRUE,
         winner |-> "draw", reason |-> DrawReason(e)]
    ELSE InProgressStatus

\* the memo with the engine's checkmate looked at before the override
gameStatusOfEngineFirst(manual, e) ==
    IF e.checkmate THEN
        [isCheckmate |-> TRUE, isStalemate |-> FALSE, isDraw |-> FALSE,
         winner |-> (IF e.turn = "w" THEN "b" ELSE "w"), reason |-> "Checkmate"]
    ELSE IF manual # NoOverride THEN manual
    ELSE IF e.stalemate THEN
        [isCheckmate |-> FALSE, isStalemate |-> TRUE, isDraw |-> TRUE,
         winner |-> "draw", reason |-> "Stalemate"]
    ELSE IF e.draw THEN
        [isCheckmate |-> FALSE, isStalemate |-> FALSE, isDraw |-> TRUE,
         winner |-> "draw", reason |-> DrawReason(e)]
    ELSE InProgressStatus

gameStatusOf(manual, e) ==
    IF manual # NoOverride THEN manual
    ELSE IF e.checkmate THEN
        [isCheckmate |-> TRUE, isStalemate |-> FALSE, isDraw |-> FALSE,
         winner |-> (IF e.turn = "w" THEN "b" ELSE "w"), reason |-> "Checkmate"]
    ELSE IF e.stalemate THEN
        [isCheckmate |-> FALSE, isStalemate |-> TRUE, isDraw |-> TRUE,
         winner |-> "draw", reason |-> "Stalemate"]
    ELSE IF e.draw THEN
        [isCheckmate |-> FALSE, isStalemate |-> FALSE, isDraw |-> TRUE,
         winner |-> "draw", reason |-> DrawReason(e)]
    ELSE InProgressStatus

----------------------------------------------------------------------------
(* makeMove *)

\* makeMove with the setters outside the test of the result
makeMoveUnchecked(cur, pos, mv) ==
    LET after == move(pos, mv)
    IN  [ok |-> after # pos, pos |-> after, fen |-> Fen(after), history |-> after,
         materialCount |-> materialOf(after)]

\* cur: the fen, history and materialCount states before the call (as
\* queued, or as committed).  The
\* result: whether game.move accepted, the instance after it, and the three
\* states after the setters.
makeMove(cur, pos, mv) ==
    LET after == move(pos, mv)
    IN  IF after # pos
        THEN [ok |-> TRUE, pos |-> after, fen |-> Fen(after), history |-> after,
              materialCount |-> materialOf(after)]
        ELSE [ok |-> FALSE, pos |-> pos, fen |-> cur.fen, history |-> cur.history,
              materialCount |-> cur.materialCount]

----------------------------------------------------------------------------
(* The limit watchers *)

\* the watchers with the max-moves check not looking at manualGameStatus
LimitWatcherWritesUnguarded(manual, invalid, len) ==
    (IF manual = NoOverride /\ invalid >= MAX_INVALID_MOVES
     THEN << ForfeitStatus >> ELSE << >>)
    \o
    (IF len >= MAX_GAME_MOVES THEN << MaxMovesStatus >> ELSE << >>)

\* the setManualGameStatus calls of one run of the effect, in order; both ifs
\* read the manualGameStatus of the render the effect belongs to
LimitWatcherWrites(manual, invalid, len) ==
    (IF manual = NoOverride /\ invalid >= MAX_INVALID_MOVES
     THEN << ForfeitStatus >> ELSE << >>)
    \o
    (IF manual = NoOverride /\ len >= MAX_GAME_MOVES
     THEN << MaxMovesStatus >> ELSE << >>)

\* the queued manualGameStatus after the effect (next: before it): the last
\* call stays
LimitWatchers(next, manual, invalid, len) ==
    LET writes == LimitWatcherWrites(manual, invalid, len)
    IN  IF writes = << >> THEN next ELSE writes[Len(writes)]

----------------------------------------------------------------------------
(* makeAiMove after the await *)

\* a random move of game.moves(), as drawn at lines 135-136 and 144-145
Picks(pos) ==
    IF moves(pos) = {} THEN { NoMove }
    ELSE { [from |-> m.from, to |-> m.to] : m \in moves(pos) }

\* the negotiation without the short-circuit: a null reply is counted, handed
\* to makeMove, refused and counted again
negotiateNoShortCircuit(cur, pos, resp, pick) ==
    LET failed == resp = NoMove
        first  == IF failed THEN 1 ELSE 0
        tried  == makeMove(cur, pos, resp)
    IN  IF tried.ok
        THEN [inc |-> first, outcome |-> "accepted", r |-> tried]
        ELSE [inc |-> first + 1,
              outcome |-> (IF failed THEN "failed" ELSE "rejected"),
              r |-> makeMove(cur, pos, pick)]

\* the negotiation with an accepted proposal taking one off invalidMoveCount
negotiateForgiving(cur, pos, resp, pick) ==
    LET failed     == resp = NoMove
        first      == IF failed THEN 1 ELSE 0
        moveToMake == IF failed THEN pick ELSE resp
        tried      == makeMove(cur, pos, moveToMake)
        unchanged  == makeMove(cur, pos, NoMove)
    IN  IF moveToMake = NoMove
        THEN [inc |-> first, outcome |-> "failed", r |-> unchanged]
        ELSE IF tried.ok
        THEN [inc |-> (IF failed THEN 1 ELSE -1),
              outcome |-> (IF failed THEN "failed" ELSE "accepted"), r |-> tried]
        ELSE [inc |-> first + 1, outcome |-> "rejected",
              r |-> makeMove(cur, pos, pick)]

\* resp: what getAiMoveJson resolved to (NoMove for null); pick: the random
\* move drawn if the code comes to draw one.  The result: the increments of
\* invalidMoveCount, how the negotiation ended, and makeMove's result.
negotiate(cur, pos, resp, pick) ==
    LET failed     == resp = NoMove
        first      == IF failed THEN 1 ELSE 0
        moveToMake == IF failed THEN pick ELSE resp
        tried      == makeMove(cur, pos, moveToMake)
        unchanged  == makeMove(cur, pos, NoMove)
    IN  IF moveToMake = NoMove
        THEN [inc |-> first, outcome |-> "failed", r |-> unchanged]
        ELSE IF tried.ok
        THEN [inc |-> first,
              outcome |-> (IF failed THEN "failed" ELSE "accepted"), r |-> tried]
        ELSE [inc |-> first + 1, outcome |-> "rejected",
              r |-> makeMove(cur, pos, pick)]

----------------------------------------------------------------------------
(* State *)

\* the states of the last committed render, as its closures hold them
Committed ==
    [ game             |-> game,
      fen              |-> fen,
      history          |-> history,
      selectedSquare   |-> selectedSquare,
      isAiThinking     |-> isAiThinking,
      materialCount    |-> materialCount,
      invalidMoveCount |-> invalidMoveCount,
      manualGameStatus |-> manualGameStatus,
      aiMode           |-> aiMode ]

\* no passive effect is waiting to run
NoEffects == [trigger |-> FALSE, watchers |-> FALSE]

\* no timer is set, so no makeAiMove is held by one
NoClosure ==
    [game |-> 0, aiMode |-> "none", gameStatus |-> InProgressStatus,
     manualGameStatus |-> NoOverride]

\* everything a render, an effect or a handler reads or writes, but the
\* provider's requests
World ==
    [ c          |-> Committed,
      gameStatus |-> gameStatus,
      engine     |-> engine,
      queued     |-> queued,
      instances  |-> instances,
      aiTimer    |-> aiTimer,
      closure    |-> closure,
      effects    |-> effects ]

RECURSIVE OutstandingUpTo(_, _)
OutstandingUpTo(p, i) == IF i = 0 THEN 0 ELSE p[i] + OutstandingUpTo(p, i - 1)
Outstanding(p) == OutstandingUpTo(p, MaxResets + 1)

\* an instance nothing refers to any more is garbage: it is kept as new
Collect(inst, g, p) ==
    [i \in Instances |-> IF i = g \/ p[i] > 0 THEN inst[i] ELSE NewChess]

\* the next state is the world w, with the requests p outstanding and op the
\* handler that ran last ("click", "timer", "resolve" or "reset")
Becomes(w, p, op) ==
    /\ game' = w.c.game
    /\ fen' = w.c.fen
    /\ history' = w.c.history
    /\ selectedSquare' = w.c.selectedSquare
    /\ isAiThinking' = w.c.isAiThinking
    /\ materialCount' = w.c.materialCount
    /\ invalidMoveCount' = w.c.invalidMoveCount
    /\ manualGameStatus' = w.c.manualGameStatus
    /\ aiMode' = w.c.aiMode
    /\ gameStatus' = w.gameStatus
    /\ engine' = w.engine
    /\ queued' = w.queued
    /\ instances' = Collect(w.instances, w.c.game, p)
    /\ aiTimer' = w.aiTimer
    /\ closure' = w.closure
    /\ effects' = w.effects
    /\ pending' = p
    /\ lastOp' = op

\* after mount and its effects: nothing is queued, no timer is set (white is to
\* move) and the watchers have written nothing
Init ==
    /\ game = 1
    /\ instances = [i \in Instances |-> NewChess]
    /\ fen = Fen(NewChess)
    /\ history = << >>
    /\ selectedSquare = "null"
    /\ isAiThinking = FALSE
    /\ materialCount = [white |-> 0, black |-> 0]
    /\ invalidMoveCount = 0
    /\ manualGameStatus = NoOverride
    /\ gameStatus = gameStatusOf(NoOverride, EngineView(NewChess))
    /\ aiMode = "gemini"
    /\ aiTimer = FALSE
    /\ closure = NoClosure
    /\ effects = NoEffects
    /\ queued = Committed
    /\ pending = [i \in Instances |-> 0]
    /\ engine = EngineView(NewChess)
    /\ lastOp = "init"

----------------------------------------------------------------------------
(* Render, commit and passive effects *)

\* The render of the states n and its commit.  The memo is computed anew when
\* fen, game or manualGameStatus changed, on the instance as it is now; the AI
\* trigger effect is due when fen, game, manualGameStatus or makeAiMove
\* (aiMode, game, gameStatus, makeMove, manualGameStatus) changed, the limit
\* watchers when invalidMoveCount, history.length or manualGameStatus did.
commit(w, n) ==
    LET memoDep == \/ n.fen # w.c.fen
                   \/ n.game # w.c.game
                   \/ n.manualGameStatus # w.c.manualGameStatus
        e       == EngineView(w.instances[n.game])
    IN  [w EXCEPT
           !.c          = n,
           !.engine     = IF memoDep THEN e ELSE @,
           !.gameStatus = IF memoDep THEN gameStatusOf(n.manualGameStatus, e) ELSE @,
           !.effects    =
               [trigger  |-> memoDep \/ n.aiMode # w.c.aiMode,
                watchers |-> \/ n.invalidMoveCount # w.c.invalidMoveCount
                             \/ Len(n.history) # Len(w.c.history)
                             \/ n.manualGameStatus # w.c.manualGameStatus]]

\* the AI trigger effect of lines 163-168: the cleanup of its last run clears
\* the timer, and a timer is set, holding the makeAiMove of this render, when
\* black is to move on the instance as it is now and no override is committed
triggerEffect(w) ==
    LET armed == /\ turn(w.instances[w.c.game]) = "b"
                 /\ w.c.manualGameStatus = NoOverride
    IN  [w EXCEPT
           !.aiTimer = armed,
           !.closure = IF armed
                       THEN [game |-> w.c.game, aiMode |-> w.c.aiMode,
                             gameStatus |-> w.gameStatus,
                             manualGameStatus |-> w.c.manualGameStatus]
                       ELSE NoClosure]

\* the limit watchers of lines 226-247, reading the committed states and
\* queueing what they write
limitWatchers(w) ==
    [w EXCEPT !.queued.manualGameStatus =
        LimitWatchers(@, w.c.manualGameStatus, w.c.invalidMoveCount,
                      Len(w.c.history))]

\* the passive effects that are due run, in the order of their declaration
flushPassiveEffects(w) ==
    LET a == IF w.effects.trigger THEN triggerEffect(w) ELSE w
        b == IF w.effects.watchers THEN limitWatchers(a) ELSE a
    IN  [b EXCEPT !.effects = NoEffects]

\* A discrete event (a click, a change of the selector): w is the world as the
\* handler left it.  A handler that set no state to a new value, with no
\* update waiting, schedules nothing.  Else React flushes the passive effects
\* still due, renders and commits before any other task runs, taking in every
\* update queued so far, and runs the passive effects of that render.
discreteEvent(w) ==
    LET flushed == flushPassiveEffects(w)
    IN  IF w.queued = w.c THEN w
        ELSE flushPassiveEffects(commit(flushed, flushed.queued))

\* React renders the updates that timer and promise callbacks and effects have
\* queued, in a task of its own; the passive effects of the render before have
\* run by then
Render ==
    /\ effects = NoEffects
    /\ queued # Committed
    /\ Becomes(commit(World, queued), pending, lastOp)

\* the passive effects of the last commit run, in a task of their own
RunEffects ==
    /\ effects # NoEffects
    /\ Becomes(flushPassiveEffects(World), pending, lastOp)

----------------------------------------------------------------------------
(* handleSquareClick *)

ClickSquares == { "e2", "e4", "d3", "f3" }

\* the early return testing the turn only
ClickIgnoredTurnOnly == turn(instances[game]) # "w"

\* the early return of line 188: the turn of the instance as it is now, the
\* status and the override of the committed render
ClickIgnored ==
    \/ turn(instances[game]) # "w"
    \/ gameStatus.isCheckmate
    \/ gameStatus.isDraw
    \/ manualGameStatus # NoOverride

\* the states s after the setters of an accepted makeMove and
\* setSelectedSquare(sel)
Moved(s, r, sel) ==
    [s EXCEPT !.fen = r.fen, !.history = r.history,
              !.materialCount = r.materialCount, !.selectedSquare = sel]

handleSquareClick(square) ==
    IF ClickIgnored
    THEN UNCHANGED vars
    ELSE IF selectedSquare # "null"
    THEN LET mv  == [from |-> selectedSquare, to |-> square]
             r   == makeMove(queued, instances[game], mv)
             sel == IF r.ok THEN "null" ELSE square
             w   == [World EXCEPT !.instances[game] = r.pos,
                                  !.queued = Moved(queued, r, sel)]
         IN  Becomes(discreteEvent(w), pending,
                     "click")
    ELSE IF movesFrom(instances[game], square) = {}
    THEN UNCHANGED vars
    ELSE LET w == [World EXCEPT !.queued.selectedSquare = square]
         IN  Becomes(discreteEvent(w), pending, "click")

HumanClick == \E square \in ClickSquares : handleSquareClick(square)

----------------------------------------------------------------------------
(* makeAiMove *)

\* the guard of line 119, in the makeAiMove the timer holds: the turn of its
\* instance as it is now, the status and the override of its render
AiMayMove ==
    /\ turn(instances[closure.game]) = "b"
    /\ ~closure.gameStatus.isCheckmate
    /\ ~closure.gameStatus.isDraw
    /\ closure.manualGameStatus = NoOverride

\* The timer of the AI trigger effect fires and calls makeAiMove.  In gemini
\* mode the call stops at the await of getAiMoveJson; in random mode it runs
\* to its end.  Its setters queue updates; React renders them later.
AiTimerFires ==
    /\ aiTimer
    /\ LET fired == [World EXCEPT !.aiTimer = FALSE, !.closure = NoClosure]
           g     == closure.game
       IN  IF ~AiMayMove
           THEN Becomes(fired, pending, "timer")
           ELSE IF closure.aiMode = "gemini"
           THEN /\ Outstanding(pending) < MaxPending
                /\ Becomes([fired EXCEPT !.queued.isAiThinking = TRUE],
                           [pending EXCEPT ![g] = @ + 1],
                           "timer")
           ELSE \E pick \in Picks(instances[g]) :
                  LET r == makeMove(queued, instances[g], pick)
                  IN  Becomes([fired EXCEPT
                                 !.instances[g] = r.pos,
                                 !.queued = [Moved(queued, r, queued.selectedSquare)
                                               EXCEPT !.isAiThinking = FALSE]],
                              pending, "timer")

\* the random moves the continuation may come to draw: none when the proposal
\* is accepted
Draws(pos, resp) ==
    IF resp # NoMove /\ Matching(pos, resp) # {} THEN { NoMove } ELSE Picks(pos)

\* what the provider may answer: a well-formed move (any from and to of the
\* engine's moves, of black or of white, legal or not where it arrives), or
\* null
Proposals == { [from |-> m.from, to |-> m.to] : m \in MoveTable }

\* getAiMoveJson settles for a call made on instance g, and makeAiMove goes on
\* from line 127 with the game and makeMove of its closure.  Its setters queue
\* updates (setInvalidMoveCount by prev => prev + 1); React renders them later.
AiResolve(g, resp) ==
    /\ pending[g] > 0
    /\ \E pick \in Draws(instances[g], resp) :
         LET n == negotiate(queued, instances[g], resp, pick)
         IN  Becomes([World EXCEPT
                        !.instances[g] = n.r.pos,
                        !.queued = [Moved(queued, n.r, queued.selectedSquare)
                                      EXCEPT !.invalidMoveCount = @ + n.inc,
                                             !.isAiThinking = FALSE]],
                     [pending EXCEPT ![g] = @ - 1],
                     "resolve")

ProviderAnswers ==
    \E g \in Instances : \E resp \in Proposals \cup { NoMove } : AiResolve(g, resp)

----------------------------------------------------------------------------
(* resetGame *)

\* the states resetGame sets, with the count it sets and the opponent chosen
Fresh(g, count, mode) ==
    [ game |-> g, fen |-> Fen(NewChess), history |-> << >>,
      selectedSquare |-> "null", isAiThinking |-> FALSE,
      materialCount |-> materialOf(NewChess), invalidMoveCount |-> count,
      manualGameStatus |-> NoOverride, aiMode |-> mode ]

\* resetGame, and with it setAiMode(mode) when the opponent selector calls it
resetGame(mode) ==
    /\ game <= MaxResets
    /\ LET w == [World EXCEPT !.instances[game + 1] = NewChess,
                              !.queued = Fresh(game + 1, 0, mode)]
       IN  Becomes(discreteEvent(w), pending, "reset")

\* the reset button of GameInfo and the Play Again button of the modal
ResetGame == resetGame(aiMode)

\* the opponent selector of App
SelectOpponent == \E mode \in { "gemini", "random" } \ { aiMode } : resetGame(mode)

----------------------------------------------------------------------------
(* App *)

\* the condition under which App renders GameOverModal
GameOverModalShown ==
    gameStatus.isCheckmate \/ gameStatus.isStalemate \/ gameStatus.isDraw

----------------------------------------------------------------------------
Next ==
    \/ HumanClick
    \/ AiTimerFires
    \/ ProviderAnswers
    \/ ResetGame
    \/ SelectOpponent
    \/ Render
    \/ RunEffects

Spec == Init /\ [][Next]_vars

\* getAiMoveJson settles for a call made on instance g: the steps of
\* AiResolve(g, resp), told by the request they take off pending
Settles(g) ==
    /\ pending[g] > 0
    /\ pending' = [pending EXCEPT ![g] = @ - 1]

\* the timer of the trigger effect goes off: it fires (AiTimerFires) or the
\* cleanup of the effect clears it
TimerEnds ==
    /\ aiTimer
    /\ aiTimer' = FALSE

\* the passive effects that are due run: the steps of RunEffects and of the
\* discrete events, told by effects
EffectsEnd ==
    /\ effects # NoEffects
    /\ effects' = NoEffects

\* The same, with a timer that is set not staying set for ever (setTimeout
\* fires after 500 ms unless it is cleared), the provider settling every
\* request in the end, and React running the renders and the effects it has
\* scheduled.  The conditions are stated on the variables the steps are told
\* by.
FairSpec ==
    /\ Spec
    /\ WF_aiTimer(TimerEnds)
    /\ \A g \in Instances : WF_pending(Settles(g))
    /\ WF_effects(EffectsEnd)
    /\ WF_vars(Render)

----------------------------------------------------------------------------
(* The gameStatus memo on its own *)

\* What a Chess instance can report to the memo.  in_draw() is true whenever
\* in_stalemate(), insufficient_material() or in_threefold_repetition() is
\* (and also by the fifty-move rule alone); a position is not both checkmate
\* and stalemate.
EngineViews ==
    { e \in [ checkmate : BOOLEAN, stalemate : BOOLEAN, draw : BOOLEAN,
              threefold : BOOLEAN, insufficient : BOOLEAN, turn : {"w", "b"} ] :
        /\ ~(e.checkmate /\ e.stalemate)
        /\ (e.stalemate \/ e.threefold \/ e.insufficient) => e.draw }

\* the values manualGameStatus takes: null and the two the watchers set
Overrides == { NoOverride, ForfeitStatus, MaxMovesStatus }

\* a render about to evaluate the memo: any override, any report of the engine
StatusInit ==
    /\ game = 1
    /\ instances = [i \in Instances |-> NewChess]
    /\ fen = Fen(NewChess)
    /\ history = << >>
    /\ selectedSquare = "null"
    /\ isAiThinking = FALSE
    /\ materialCount = [white |-> 0, black |-> 0]
    /\ invalidMoveCount = 0
    /\ manualGameStatus \in Overrides
    /\ engine \in EngineViews
    /\ gameStatus = InProgressStatus
    /\ aiMode = "gemini"
    /\ aiTimer = FALSE
    /\ closure = NoClosure
    /\ effects = NoEffects
    /\ queued = Committed
    /\ pending = [i \in Instances |-> 0]
    /\ lastOp = "init"

\* the memo of lines 70-85 is evaluated
StatusMemo ==
    /\ lastOp = "init"
    /\ gameStatus' = gameStatusOf(manualGameStatus, engine)
    /\ lastOp' = "memo"
    /\ UNCHANGED << game, instances, fen, history, selectedSquare, isAiThinking,
                    materialCount, invalidMoveCount, manualGameStatus, aiMode,
                    aiTimer, pending, engine, queued, effects, closure >>

StatusNext == StatusMemo

StatusSpec == StatusInit /\ [][StatusNext]_vars

----------------------------------------------------------------------------
(* Properties *)

AnyAnswer == Proposals \cup { NoMove }

\* React has rendered every update and run every effect: what the page shows
\* is what the setters made
Settled == queued = Committed /\ effects = NoEffects

\* the session as the setters called so far have made it
Session ==
    << queued.fen, queued.history, queued.materialCount, queued.invalidMoveCount >>

\* a step of resetGame
IsReset == game' # game

\* a move is applied to instance g
Applied(g) == Len(instances'[g]) > Len(instances[g])

\* a status other than in progress
Terminal(st) ==
    st.isCheckmate \/ st.isStalemate \/ st.isDraw \/ st.winner # "null"

\* C1: when a negotiation that was pending at a resetGame resolves later, with
\* a legal proposal, an illegal one or a provider failure, its result is
\* discarded: fen, history, materialCount and invalidMoveCount of the new
\* session are set to nothing new.
C1_StaleResultDiscarded ==
    [][ \A g \in Instances : (g # game /\ Settles(g)) => Session' = Session ]_vars

\* C2: at most one AI negotiation is in flight for the current session.
C2_AtMostOneNegotiation == pending[game] <= 1

\* C3: once invalidMoveCount has reached MAX_INVALID_MOVES and React has
\* rendered what followed from it, the status is the forfeit status with
\* winner 'w', until resetGame (which sets the count to 0).
C3_ForfeitAtLimit ==
    (Settled /\ invalidMoveCount >= MAX_INVALID_MOVES) => gameStatus = ForfeitStatus

\* C4: once the history length has reached MAX_GAME_MOVES and React has
\* rendered what followed from it, the status is Draw with reason "Max moves
\* reached", until resetGame (which empties the history).
C4_DrawAtLimit ==
    (Settled /\ Len(history) >= MAX_GAME_MOVES) => gameStatus = MaxMovesStatus

\* C5: when the limit watchers run on a render in which both limits are
\* reached and no override is set, the override they leave is the forfeit
\* status, not the draw.
C5_ForfeitWinsTie ==
    [][ ( /\ ~IsReset
          /\ effects.watchers
          /\ effects' = NoEffects
          /\ manualGameStatus = NoOverride
          /\ invalidMoveCount >= MAX_INVALID_MOVES
          /\ Len(history) >= MAX_GAME_MOVES )
        => queued'.manualGameStatus = ForfeitStatus ]_vars

\* C6: manualGameStatus is write-once per session: from a state where it is
\* set (rendered, or waiting to be), a step that is not resetGame leaves it as
\* it is, and the limit watchers evaluated on the counters after the step
\* write nothing.
C6_OverrideWriteOnce ==
    [][ ~IsReset =>
          /\ queued.manualGameStatus # NoOverride
                => queued'.manualGameStatus = queued.manualGameStatus
          /\ manualGameStatus # NoOverride
                => /\ manualGameStatus' = manualGameStatus
                   /\ LimitWatcherWrites(manualGameStatus, invalidMoveCount',
                                         Len(history')) = << >> ]_vars

\* the override is set and both limits are reached: the watchers have had
\* both reasons to write again, and the first override stands
C6_Witness ==
    /\ Settled
    /\ manualGameStatus = ForfeitStatus
    /\ invalidMoveCount >= MAX_INVALID_MOVES
    /\ Len(history) >= MAX_GAME_MOVES

\* C7: once the status is terminal, no step other than resetGame applies a
\* move to the current instance or changes the move history.
C7_TerminalAbsorbing ==
    [][ (Terminal(gameStatus) /\ ~IsReset)
        => /\ history' = history
           /\ queued'.history = queued.history
           /\ instances'[game] = instances[game] ]_vars

\* C8: whatever the provider answers, a negotiation changes invalidMoveCount
\* (as its setter leaves it) by exactly 1 when the provider failed or the
\* engine refused the proposal, and by 0 when the proposal was accepted.
C8_OneIncrementPerNegotiation ==
    /\ [](\A g \in Instances :
            pending[g] > 0 =>
              \A resp \in AnyAnswer : \A pick \in Draws(instances[g], resp) :
                negotiate(queued, instances[g], resp, pick).inc =
                  (IF resp = NoMove \/ Matching(instances[g], resp) = {}
                   THEN 1 ELSE 0))
    /\ [][ \A g \in Instances :
              Settles(g) =>
                queued'.invalidMoveCount - queued.invalidMoveCount \in {0, 1}
         ]_vars

\* a negotiation has counted its reply once and played the fallback move;
\* React has not rendered it yet
C8_Witness ==
    /\ lastOp = "resolve"
    /\ invalidMoveCount = 0
    /\ queued.invalidMoveCount = 1
    /\ Len(history) = 1
    /\ Len(queued.history) = 2

\* C9: a human move the engine refuses (a square is selected, the target is
\* not reachable) sets nothing of position, history, materialCount and
\* invalidMoveCount and applies no move; when nothing was waiting to be
\* rendered, the session and manualGameStatus are after the click what they
\* were before.
C9_RejectedHumanMove ==
    [][ \A square \in ClickSquares :
          ( /\ ~ClickIgnored
            /\ selectedSquare # "null"
            /\ Matching(instances[game], [from |-> selectedSquare, to |-> square]) = {}
            /\ handleSquareClick(square) )
          => /\ Session' = Session
             /\ game' = game
             /\ instances' = instances
             /\ Settled =>
                  /\ UNCHANGED << fen, history, materialCount, invalidMoveCount,
                                  manualGameStatus, gameStatus >>
                  /\ queued'.manualGameStatus = queued.manualGameStatus ]_vars

\* a refused move has just moved the selection to a square with no piece to
\* move, in a game under way
C9_Witness ==
    /\ lastOp = "click"
    /\ selectedSquare = "d3"
    /\ Len(history) = 2
    /\ history = instances[game]

\* C10: in every state, the first included, materialCount is
\* computeMaterialCount of the current game's board.
C10_MaterialNoDrift ==
    materialCount = computeMaterialCount(board(instances[game]))

\* C11: from any state, resetGame yields a fresh session: empty history,
\* invalidMoveCount 0, no override, materialCount 39/39, the starting position
\* with white to move, no selection, the thinking indicator off and the status
\* in progress.
C11_ResetYieldsFreshSession ==
    [][ IsReset =>
          /\ history' = << >>
          /\ invalidMoveCount' = 0
          /\ manualGameStatus' = NoOverride
          /\ queued'.manualGameStatus = NoOverride
          /\ materialCount' = [white |-> 39, black |-> 39]
          /\ instances'[game'] = NewChess
          /\ fen' = Fen(NewChess)
          /\ turn(instances'[game']) = "w"
          /\ selectedSquare' = "null"
          /\ ~isAiThinking'
          /\ gameStatus' = InProgressStatus ]_vars

\* C12: gameStatus follows the precedence: the override if one is set, else
\* Checkmate if the engine reports checkmate, else Stalemate if it reports
\* stalemate, else Draw if it reports a draw, else in progress (checked under
\* StatusSpec, for every override and every report of the engine).
C12_StatusPrecedence ==
    lastOp = "memo" =>
        IF manualGameStatus # NoOverride THEN gameStatus = manualGameStatus
        ELSE IF engine.checkmate
        THEN gameStatus.isCheckmate /\ gameStatus.reason = "Checkmate"
        ELSE IF engine.stalemate
        THEN gameStatus.isStalemate /\ gameStatus.reason = "Stalemate"
        ELSE IF engine.draw
        THEN /\ gameStatus.isDraw
             /\ ~gameStatus.isStalemate
             /\ ~gameStatus.isCheckmate
             /\ gameStatus.winner = "draw"
        ELSE gameStatus = InProgressStatus

\* the memo was evaluated with an override set on a position the engine
\* reports as checkmate, and the override is the status
C12_Witness ==
    /\ lastOp = "memo"
    /\ manualGameStatus = ForfeitStatus
    /\ engine.checkmate
    /\ gameStatus = ForfeitStatus

\* C13: with no override, on a draw that is neither checkmate nor stalemate,
\* the reason is "Threefold Repetition" if the position is a threefold
\* repetition, else "Insufficient Material" if the material is insufficient,
\* else "Draw" (checked under StatusSpec).
C13_DrawReasonOrder ==
    ( /\ lastOp = "memo"
      /\ manualGameStatus = NoOverride
      /\ ~engine.checkmate
      /\ ~engine.stalemate
      /\ engine.draw )
    => gameStatus.reason =
         (IF engine.threefold THEN "Threefold Repetition"
          ELSE IF engine.insufficient THEN "Insufficient Material"
          ELSE "Draw")

\* C14: every move the AI path applies (the proposal or the fallback move of a
\* negotiation, or the move of random mode) is a move for black, applied to
\* the instance of the current session while black is to move on it.
C14_AiMovesOnlyForBlack ==
    [][ \A g \in Instances :
          (Applied(g) /\ lastOp' \in {"timer", "resolve"})
          => /\ g = game
             /\ turn(instances[g]) = "b" ]_vars

\* C15: whenever React has rendered every update, the exposed history is the
\* sequence of half-moves applied to the current session's board.
C15_HistoryIsAppliedMoves == Settled => history = instances[game]

\* C16: a step other than resetGame that sets the history appends exactly one
\* entry to it, and the mover alternates from the start of the session: the
\* human makes the moves at even history lengths, the AI those at odd ones.
C16_AcceptedMovesAlternate ==
    [][ (~IsReset /\ queued'.history # queued.history)
        => /\ Len(queued'.history) = Len(queued.history) + 1
           /\ SubSeq(queued'.history, 1, Len(queued.history)) = queued.history
           /\ (lastOp' = "click") <=> (Len(queued.history) % 2 = 0) ]_vars

\* C17: in random mode no provider request of the session is outstanding,
\* invalidMoveCount is 0 and the status is not the forfeit.
C17_RandomModeNeverInvalid ==
    aiMode = "random" =>
        /\ pending[game] = 0
        /\ invalidMoveCount = 0
        /\ gameStatus # ForfeitStatus

\* C18: isAiThinking is true in every state in which a negotiation of the
\* current session awaits the provider and React has rendered every update.
C18_ThinkingWhileInFlight == (Settled /\ pending[game] > 0) => isAiThinking

\* C19: when black is to move (e.g. while the AI is thinking) or the status is
\* terminal, handleSquareClick applies no move and leaves position, history,
\* counters, override and selection as they were.
C19_ClickIgnored ==
    [][ \A square \in ClickSquares :
          ( /\ turn(instances[game]) # "w" \/ Terminal(gameStatus)
            /\ handleSquareClick(square) )
          => UNCHANGED << game, instances, fen, history, materialCount,
                          invalidMoveCount, manualGameStatus, selectedSquare,
                          queued >>
      ]_vars

\* an override has been declared with white to move and a legal move at hand:
\* only the early return keeps a click from selecting and moving
C19_Witness ==
    /\ Settled
    /\ gameStatus = ForfeitStatus
    /\ turn(instances[game]) = "w"
    /\ movesFrom(instances[game], "e2") # {}
    /\ selectedSquare = "null"
    /\ pending[game] = 0

\* C20: at most one of the flags isCheckmate, isStalemate and isDraw is true
\* in a gameStatus value (checked under StatusSpec).
C20_OneVariantActive ==
    /\ ~(gameStatus.isCheckmate /\ gameStatus.isStalemate)
    /\ ~(gameStatus.isCheckmate /\ gameStatus.isDraw)
    /\ ~(gameStatus.isStalemate /\ gameStatus.isDraw)

\* C21: across every step other than resetGame invalidMoveCount does not
\* decrease, neither as rendered nor as its setter leaves it; it goes back to
\* 0 only by resetGame.
C21_InvalidCountMonotone ==
    [][ ~IsReset => /\ invalidMoveCount' >= invalidMoveCount
                    /\ queued'.invalidMoveCount >= queued.invalidMoveCount ]_vars

\* an invalid reply has been counted, and the count has stayed through an
\* accepted proposal of a later negotiation
C21_Witness ==
    /\ queued.invalidMoveCount = 1
    /\ invalidMoveCount = 1
    /\ lastOp = "resolve"
    /\ Len(history) = 3
    /\ Len(queued.history) = 4
    /\ queued.history = instances[game]

\* C22: every completed AI turn applies exactly one legal move of the board
\* it plays on, whatever the provider answers (the proposal, or a fallback
\* move of the legal-move list), so the history it sets is that board's
\* history and one move; the forfeit status is there only when
\* invalidMoveCount has reached MAX_INVALID_MOVES, and it is there once React
\* has rendered the count that reached it (the tie with the move limit, which
\* is the case of C5, left aside).
C22_OneLegalMovePerAiTurn ==
    [][ /\ \A g \in Instances :
              Settles(g)
              => \E m \in moves(instances[g]) :
                     queued'.history = Append(instances[g], m.san)
        /\ (aiTimer /\ closure.aiMode = "random" /\ AiMayMove /\ AiTimerFires)
              => \E m \in moves(instances[closure.game]) :
                     queued'.history = Append(instances[closure.game], m.san)
        /\ gameStatus' = ForfeitStatus
              => invalidMoveCount' >= MAX_INVALID_MOVES
        /\ ( /\ Settled'
             /\ invalidMoveCount' >= MAX_INVALID_MOVES
             /\ Len(history') < MAX_GAME_MOVES )
           => gameStatus' = ForfeitStatus ]_vars

\* C23: when the status is Checkmate, the winner is the side that made the
\* last move applied to the current board, the opposite of the side the
\* engine has to move.
C23_WinnerDeliveredMate ==
    gameStatus.isCheckmate =>
        /\ in_checkmate(instances[game])
        /\ gameStatus.winner = (IF Len(instances[game]) % 2 = 1 THEN "w" ELSE "b")
        /\ gameStatus.winner # engine.turn

\* the AI's move has mated the human: black wins, white to move
C23_Witness ==
    /\ gameStatus.isCheckmate
    /\ gameStatus.winner = "b"
    /\ turn(instances[game]) = "w"
    /\ lastOp = "resolve"

\* C24: whenever black is to move in a session and the status is not
\* terminal, then, the provider answering and no reset coming in between, an
\* AI move is applied and white is to move again (checked under FairSpec; a
\* reset, which changes game, discharges the obligation).
C24_AiTurnCompletes ==
    \A g \in Instances :
        (game = g /\ turn(instances[g]) = "b" /\ ~Terminal(gameStatus))
        ~> (game # g \/ turn(instances[game]) = "w")

\* C25: the move history never has more than MAX_GAME_MOVES entries.
C25_HistoryWithinLimit == Len(history) <= MAX_GAME_MOVES

\* C26: whenever the status is terminal, the forfeit status included, App
\* displays the game-over modal.
C26_ModalOnTerminal == Terminal(gameStatus) => GameOverModalShown

\* C27: resetGame clears the timer of the trigger effect; when the trigger
\* effect has run (it was due, or game, fen or manualGameStatus changed and
\* the effects of that render have run), a timer is set only for the current
\* game, with black to move and no override; and a provider request is issued
\* only by that timer, for the current game with black to move and while no
\* override has ended the session: none for a position that was discarded or
\* a turn that has ended.
C27_TimerCancelled ==
    [][ /\ IsReset => ~aiTimer'
        /\ ( /\ effects' = NoEffects
             /\ \/ effects.trigger
                \/ game' # game
                \/ fen' # fen
                \/ manualGameStatus' # manualGameStatus )
              => (aiTimer' => /\ closure'.game = game'
                              /\ turn(instances'[game']) = "b"
                              /\ manualGameStatus' = NoOverride)
        /\ \A g \in Instances :
              pending'[g] > pending[g]
              => /\ g = game
                 /\ game' = game
                 /\ aiTimer
                 /\ turn(instances[g]) = "b"
                 /\ manualGameStatus = NoOverride ]_vars

\* C28: the limit watchers look at no status of the engine: once the history
\* has MAX_GAME_MOVES entries or invalidMoveCount has reached
\* MAX_INVALID_MOVES and React has rendered what followed from it, an override
\* is set (the draw or the forfeit) and the status reported is that override,
\* also when the move played gives checkmate.
C28_OverrideBeatsEngine ==
    ( /\ Settled
      /\ \/ Len(history) >= MAX_GAME_MOVES
         \/ invalidMoveCount >= MAX_INVALID_MOVES )
    => /\ manualGameStatus \in { ForfeitStatus, MaxMovesStatus }
       /\ gameStatus = manualGameStatus

\* the move that brought the history to MAX_GAME_MOVES entries is checkmate,
\* and the status is the draw by the move limit
C28_Witness ==
    /\ Settled
    /\ Len(history) = MAX_GAME_MOVES
    /\ history = instances[game]
    /\ in_checkmate(instances[game])
    /\ gameStatus = MaxMovesStatus

====
